---- MODULE Spec2Model ----
(***************************************************************************)
(* A model of two parts of the rust-blockchain example node:               *)
(*   - chain::BlockBuilder (src/src/chain/block_builder.rs), the one-shot  *)
(*     pipeline new / apply_extrinsic / finalize over a backend and an     *)
(*     executor;                                                           *)
(*   - the libp2p Behaviour of the counter example                         *)
(*     (src/examples/counter/src/network/libp2p.rs): the event queue, the  *)
(*     floodsub partial view and the three inject_event handlers.          *)
(* Spec is the block builder's specification; QueueSpec and ViewSpec are   *)
(* the behaviour's, NetSpec has all the behaviour's operations, and        *)
(* LoopSpec is the event loop's.                                           *)
(***************************************************************************)
EXTENDS Integers, Sequences, FiniteSets, TLC

VARIABLES
    \* ---- block builder ----
    blocks,       \* hashes whose block the backend can locate (block_at)
    states,       \* hashes whose state the backend can locate (state_at)
    builder,      \* the BlockBuilder value: phase, pending block, pending state
    log,          \* the apply_extrinsic calls made on the builder and what each returned
    ops,          \* the ImportOperations the builder's finalize calls returned
    newResult,    \* what the latest BlockBuilder::new call did and returned
    imported,     \* the ImportOperations the backend has committed, in order
    \* ---- network behaviour ----
    events,       \* Behaviour.events: Vec<(PeerId, BestDepthMessage)>
    view,         \* the floodsub partial view
    mdns,         \* the mDNS records (peer, address) still active
    published,    \* what floodsub.publish was called with, in order
    panicked,     \* the process has panicked
    enqueued,     \* every event ever pushed to the queue, in order
    delivered,    \* every event poll returned (and the loop handed to on_message), in order
    viaKad,       \* peers a Kademlia Discovered notification has named
    viaMdns,      \* peers an mDNS notification has named
    last,         \* the latest behaviour operation: its input and what it returned
    \* ---- event loop ----
    pc,           \* where the loop is: suspended, timer, on_tick, swarm, on_message
    ticks,        \* timer periods that have elapsed and that interval.poll() has not returned yet
    tickCalls,    \* on_tick invocations so far
    stepTicks,    \* on_tick invocations in the current scheduling step
    timerDrained, \* interval.poll() has returned NotReady in the current scheduling step
    active,       \* handler invocations in progress
    listening,    \* the loop's listening flag
    hasListener,  \* Swarm::listeners(&swarm) yields an address
    announced     \* "Listening on" lines printed so far

builderVars == <<blocks, states, builder, log, ops, newResult, imported>>
netVars == <<events, view, mdns, published, panicked, enqueued, delivered, viaKad, viaMdns, last>>
loopVars == <<pc, ticks, tickCalls, stepTicks, timerDrained, active, listening, hasListener,
              announced>>
vars == <<blocks, states, builder, log, ops, newResult, imported,
          events, view, mdns, published, panicked, enqueued, delivered, viaKad, viaMdns, last,
          pc, ticks, tickCalls, stepTicks, timerDrained, active, listening, hasListener,
          announced>>

(***************************************************************************)
(* Bounds                                                                  *)
(***************************************************************************)
MaxHash == 2        \* parent hashes are 1..MaxHash
MaxCalls == 3       \* apply_extrinsic calls per builder
MaxCounter == 2     \* the executor accepts an extrinsic while the counter stays in 0..MaxCounter
MaxEvents == 3      \* floodsub messages received in one run
MaxPublished == 1   \* publications made in one run
MaxTicks == 2       \* timer periods that elapse in one run
MaxLoopSize == 3    \* LoopSpec: messages received, timer periods and publications, together
MaxNetSize == 2     \* NetSpec: messages received, mDNS records, peers named and publications, together

Hashes == 1..MaxHash
Extrinsics == {-1, 1, 2}

NoBlock == [at |-> 0, header |-> "none", body |-> <<>>]
NoState == [root |-> 0, counter |-> 0]
NoBuilder == [phase |-> "none", block |-> NoBlock, state |-> NoState]

(***************************************************************************)
(* The backend: block_at and state_at locate the parent or fail.           *)
(***************************************************************************)
block_at(h) ==
    IF h \in blocks
    THEN [ok |-> TRUE, val |-> [at |-> h, header |-> "stored", body |-> <<>>]]
    ELSE [ok |-> FALSE, val |-> NoBlock]

state_at(h) ==
    IF h \in states
    THEN [ok |-> TRUE, val |-> [root |-> h, counter |-> h - 1]]
    ELSE [ok |-> FALSE, val |-> NoState]

(***************************************************************************)
(* The executor.  initialize_block sets up the header of the pending       *)
(* block; apply_extrinsic validates the extrinsic against the pending      *)
(* state and, when it is valid, appends it to the body and applies the     *)
(* state transition; finalize_block writes the trailer.  Whether           *)
(* initialize_block and finalize_block fail is the executor's choice       *)
(* (the parameter ok).                                                     *)
(***************************************************************************)
ExtrinsicValid(state, x) ==
    /\ state.counter + x >= 0
    /\ state.counter + x <= MaxCounter

exec_initialize_block(block, state, ok) ==
    IF ok
    THEN [ok |-> TRUE, block |-> [block EXCEPT !.header = "pending"], state |-> state]
    ELSE [ok |-> FALSE, block |-> block, state |-> state]

exec_apply_extrinsic(block, x, state) ==
    IF ExtrinsicValid(state, x)
    THEN [ok |-> TRUE,
          block |-> [block EXCEPT !.body = Append(@, x)],
          state |-> [state EXCEPT !.counter = @ + x]]
    ELSE [ok |-> FALSE, block |-> block, state |-> state]

exec_finalize_block(block, state, ok) ==
    IF ok
    THEN [ok |-> TRUE, block |-> [block EXCEPT !.header = "final"], state |-> state]
    ELSE [ok |-> FALSE, block |-> block, state |-> state]

(***************************************************************************)
(* BlockBuilder::new: block lookup, state lookup, initialize_block, each   *)
(* `?` returning at the first failure.  calls lists the collaborators      *)
(* invoked, in order.                                                      *)
(***************************************************************************)
new_miswrapped(parent_hash, initOk) ==
    LET pb == block_at(parent_hash) IN
    IF ~pb.ok
    THEN [result |-> "Backend", calls |-> <<"block_at">>, builder |-> NoBuilder]
    ELSE
    LET ps == state_at(parent_hash) IN
    IF ~ps.ok
    THEN [result |-> "Executor", calls |-> <<"block_at", "state_at">>, builder |-> NoBuilder]
    ELSE
    LET r == exec_initialize_block(pb.val, ps.val, initOk) IN
    IF ~r.ok
    THEN [result |-> "Executor", calls |-> <<"block_at", "state_at", "initialize_block">>,
          builder |-> NoBuilder]
    ELSE [result |-> "Ok", calls |-> <<"block_at", "state_at", "initialize_block">>,
          builder |-> [phase |-> "live", block |-> r.block, state |-> r.state]]

new_eager(parent_hash, initOk) ==
    LET pb == block_at(parent_hash)
        ps == state_at(parent_hash) IN
    IF ~pb.ok \/ ~ps.ok
    THEN [result |-> "Backend", calls |-> <<"block_at", "state_at">>, builder |-> NoBuilder]
    ELSE
    LET r == exec_initialize_block(pb.val, ps.val, initOk) IN
    IF ~r.ok
    THEN [result |-> "Executor", calls |-> <<"block_at", "state_at", "initialize_block">>,
          builder |-> NoBuilder]
    ELSE [result |-> "Ok", calls |-> <<"block_at", "state_at", "initialize_block">>,
          builder |-> [phase |-> "live", block |-> r.block, state |-> r.state]]

new(parent_hash, initOk) ==
    LET pb == block_at(parent_hash) IN
    IF ~pb.ok
    THEN [result |-> "Backend", calls |-> <<"block_at">>, builder |-> NoBuilder]
    ELSE
    LET ps == state_at(parent_hash) IN
    IF ~ps.ok
    THEN [result |-> "Backend", calls |-> <<"block_at", "state_at">>, builder |-> NoBuilder]
    ELSE
    LET r == exec_initialize_block(pb.val, ps.val, initOk) IN
    IF ~r.ok
    THEN [result |-> "Executor", calls |-> <<"block_at", "state_at", "initialize_block">>,
          builder |-> NoBuilder]
    ELSE [result |-> "Ok", calls |-> <<"block_at", "state_at", "initialize_block">>,
          builder |-> [phase |-> "live", block |-> r.block, state |-> r.state]]

(***************************************************************************)
(* BlockBuilder::apply_extrinsic: the executor works on the builder's own  *)
(* pending block and state (&mut), and its error is mapped to              *)
(* Error::Executor.                                                        *)
(***************************************************************************)
apply_extrinsic_pushfirst(self, extrinsic) ==
    LET pushed == [self.block EXCEPT !.body = Append(@, extrinsic)]
        r == exec_apply_extrinsic(self.block, extrinsic, self.state) IN
    [self |-> [self EXCEPT !.block = IF r.ok THEN r.block ELSE pushed, !.state = r.state],
     result |-> IF r.ok THEN "Ok" ELSE "Executor"]

apply_extrinsic_swallow(self, extrinsic) ==
    LET r == exec_apply_extrinsic(self.block, extrinsic, self.state) IN
    [self |-> [self EXCEPT !.block = r.block, !.state = r.state],
     result |-> "Ok"]

apply_extrinsic_poison(self, extrinsic) ==
    LET r == exec_apply_extrinsic(self.block, extrinsic, self.state) IN
    [self |-> [self EXCEPT !.block = r.block, !.state = r.state,
                           !.phase = IF r.ok THEN @ ELSE "dropped"],
     result |-> IF r.ok THEN "Ok" ELSE "Executor"]

apply_extrinsic(self, extrinsic) ==
    LET r == exec_apply_extrinsic(self.block, extrinsic, self.state) IN
    [self |-> [self EXCEPT !.block = r.block, !.state = r.state],
     result |-> IF r.ok THEN "Ok" ELSE "Executor"]

(***************************************************************************)
(* BlockBuilder::finalize takes self by value: the builder is consumed     *)
(* whether finalize_block succeeds or not.                                 *)
(***************************************************************************)
finalize_by_ref(self, finOk) ==
    LET r == exec_finalize_block(self.block, self.state, finOk) IN
    IF ~r.ok
    THEN [self |-> self, result |-> "Executor", op |-> <<>>]
    ELSE [self |-> self, result |-> "Ok",
          op |-> <<[block |-> r.block, state |-> r.state]>>]

finalize(self, finOk) ==
    LET r == exec_finalize_block(self.block, self.state, finOk) IN
    IF ~r.ok
    THEN [self |-> [self EXCEPT !.phase = "finalized", !.block = r.block, !.state = r.state],
          result |-> "Executor", op |-> <<>>]
    ELSE [self |-> [self EXCEPT !.phase = "finalized", !.block = r.block, !.state = r.state],
          result |-> "Ok",
          op |-> <<[block |-> r.block, state |-> r.state]>>]

(***************************************************************************)
(* Block builder actions.  One builder is followed from BlockBuilder::new  *)
(* to the end of its life; a builder owns its pending block and state, so  *)
(* other builders do not act on it.                                        *)
(***************************************************************************)
NoNew == [parent |-> 0, result |-> "none", calls |-> <<>>,
          blockFound |-> FALSE, stateFound |-> FALSE, initOk |-> FALSE]

InitBuilder ==
    /\ blocks \in SUBSET Hashes
    /\ states \in SUBSET Hashes
    /\ builder = NoBuilder
    /\ log = <<>>
    /\ ops = <<>>
    /\ newResult = NoNew
    /\ imported = <<>>

New ==
    \E h \in Hashes, initOk \in BOOLEAN :
        /\ builder.phase = "none"
        /\ LET r == new(h, initOk) IN
           /\ newResult' = [parent |-> h, result |-> r.result, calls |-> r.calls,
                            blockFound |-> h \in blocks, stateFound |-> h \in states,
                            initOk |-> initOk]
           /\ builder' = r.builder
        /\ UNCHANGED <<blocks, states, log, ops, imported>>
        /\ UNCHANGED netVars
        /\ UNCHANGED loopVars

Apply ==
    \E x \in Extrinsics :
        /\ builder.phase = "live"
        /\ Len(log) < MaxCalls
        /\ LET r == apply_extrinsic(builder, x) IN
           /\ builder' = r.self
           /\ log' = Append(log, [x |-> x, result |-> r.result])
        /\ UNCHANGED <<blocks, states, ops, newResult, imported>>
        /\ UNCHANGED netVars
        /\ UNCHANGED loopVars

Finalize ==
    \E finOk \in BOOLEAN :
        /\ builder.phase = "live"
        /\ LET r == finalize(builder, finOk) IN
           /\ builder' = r.self
           /\ ops' = ops \o r.op
        /\ UNCHANGED <<blocks, states, log, newResult, imported>>
        /\ UNCHANGED netVars
        /\ UNCHANGED loopVars

DropFlush ==
    /\ builder.phase = "live"
    /\ builder' = [builder EXCEPT !.phase = "dropped"]
    /\ states' = states \cup {MaxHash + builder.block.at}
    /\ UNCHANGED <<blocks, log, ops, newResult, imported>>
    /\ UNCHANGED netVars
    /\ UNCHANGED loopVars

Drop ==
    /\ builder.phase = "live"
    /\ builder' = [builder EXCEPT !.phase = "dropped"]
    /\ UNCHANGED <<blocks, states, log, ops, newResult, imported>>
    /\ UNCHANGED netVars
    /\ UNCHANGED loopVars

(***************************************************************************)
(* The backend commits a completed ImportOperation: the new block and its  *)
(* state become locatable under the new block's hash.                      *)
(***************************************************************************)
ChildHash(block) == MaxHash + block.at

Commit ==
    \E k \in 1..Len(ops) :
        /\ \A j \in 1..Len(imported) : imported[j] # ops[k]
        /\ blocks' = blocks \cup {ChildHash(ops[k].block)}
        /\ states' = states \cup {ChildHash(ops[k].block)}
        /\ imported' = Append(imported, ops[k])
        /\ UNCHANGED <<builder, log, ops, newResult>>
        /\ UNCHANGED netVars
        /\ UNCHANGED loopVars

NextBuilder == New \/ Apply \/ Finalize \/ Drop \/ Commit

(***************************************************************************)
(* The network behaviour.                                                  *)
(*                                                                         *)
(* A gossip payload is a sequence of bytes.  A BestDepthMessage is a depth *)
(* announcement or a block; its encoding is a tag byte followed by one     *)
(* value byte.  decode reads a prefix of the payload and fails on an       *)
(* unknown tag or a payload that ends too early.                           *)
(***************************************************************************)
Peers == {"p1", "p2"}
Addrs == {"a1", "a2"}
Tags == {0, 1, 2}
Vals == {0, 1}
Payloads == {<<>>} \cup {<<a>> : a \in Tags} \cup {<<a, b>> : a \in Tags, b \in Vals}
Msgs == [kind : {"depth", "block"}, v : Vals]
TopicBlocks == "blocks"

encode(m) == <<IF m.kind = "depth" THEN 0 ELSE 1, m.v>>

decode(data) ==
    IF Len(data) = 0 THEN [ok |-> FALSE, val |-> [kind |-> "none", v |-> 0]]
    ELSE IF data[1] \notin {0, 1} THEN [ok |-> FALSE, val |-> [kind |-> "none", v |-> 0]]
    ELSE IF Len(data) < 2 THEN [ok |-> FALSE, val |-> [kind |-> "none", v |-> 0]]
    ELSE [ok |-> TRUE,
          val |-> [kind |-> IF data[1] = 0 THEN "depth" ELSE "block", v |-> data[2]]]

NoEvent == [peer |-> "-", msg |-> [kind |-> "none", v |-> 0]]
NoLast == [op |-> "none", kind |-> "-", peer |-> "-", data |-> <<>>, list |-> {},
           result |-> "-", event |-> NoEvent]

InitNet ==
    /\ events = <<>>
    /\ view = {}
    /\ mdns = {}
    /\ published = <<>>
    /\ panicked = FALSE
    /\ enqueued = <<>>
    /\ delivered = <<>>
    /\ viaKad = {}
    /\ viaMdns = {}
    /\ last = NoLast

(***************************************************************************)
(* Behaviour::poll: the head of the queue when there is one, else          *)
(* NotReady.                                                               *)
(***************************************************************************)
poll_pop(evs) ==
    IF evs # <<>>
    THEN [events |-> SubSeq(evs, 1, Len(evs) - 1), result |-> "Ready", event |-> evs[Len(evs)]]
    ELSE [events |-> evs, result |-> "NotReady", event |-> NoEvent]

poll_peek(evs) ==
    IF evs # <<>>
    THEN [events |-> evs, result |-> "Ready", event |-> Head(evs)]
    ELSE [events |-> evs, result |-> "NotReady", event |-> NoEvent]

poll(evs) ==
    IF evs # <<>>
    THEN [events |-> Tail(evs), result |-> "Ready", event |-> Head(evs)]
    ELSE [events |-> evs, result |-> "NotReady", event |-> NoEvent]

(***************************************************************************)
(* inject_event for floodsub: a Message is decoded (unwrap: a payload that *)
(* does not decode panics) and pushed with its source; any other floodsub  *)
(* event is ignored.                                                       *)
(***************************************************************************)
inject_floodsub_front(evs, kind, source, data) ==
    IF kind = "Message"
    THEN LET message == decode(data) IN
         IF ~message.ok
         THEN [events |-> evs, panicked |-> TRUE, pushed |-> <<>>]
         ELSE [events |-> <<[peer |-> source, msg |-> message.val]>> \o evs,
               panicked |-> FALSE,
               pushed |-> <<[peer |-> source, msg |-> message.val]>>]
    ELSE [events |-> evs, panicked |-> FALSE, pushed |-> <<>>]

inject_floodsub(evs, kind, source, data) ==
    IF kind = "Message"
    THEN LET message == decode(data) IN
         IF ~message.ok
         THEN [events |-> evs, panicked |-> TRUE, pushed |-> <<>>]
         ELSE [events |-> Append(evs, [peer |-> source, msg |-> message.val]),
               panicked |-> FALSE,
               pushed |-> <<[peer |-> source, msg |-> message.val]>>]
    ELSE [events |-> evs, panicked |-> FALSE, pushed |-> <<>>]

(***************************************************************************)
(* inject_event for Kademlia: Discovered adds the peer to the partial      *)
(* view; any other notification is ignored.                                *)
(***************************************************************************)
inject_kademlia_evict(pv, kind, peer_id) ==
    IF kind = "Discovered" THEN pv \cup {peer_id} ELSE pv \ {peer_id}

inject_kademlia(pv, kind, peer_id) ==
    IF kind = "Discovered" THEN pv \cup {peer_id} ELSE pv

(***************************************************************************)
(* inject_event for mDNS.  has_node: mDNS holds a record of the peer.      *)
(* Discovered adds every listed peer; Expired removes every listed peer    *)
(* mDNS holds no record of any more.                                       *)
(***************************************************************************)
has_node(records, peer) == \E r \in records : r[1] = peer

PeersOf(list) == {r[1] : r \in list}

RECURSIVE mdns_discovered(_, _)
mdns_discovered(pv, list) ==
    IF list = {} THEN pv
    ELSE LET r == CHOOSE e \in list : TRUE IN
         mdns_discovered(pv \cup {r[1]}, list \ {r})

mdns_expired_all(pv, list, records) ==
    {p \in pv : has_node(records, p)}

RECURSIVE mdns_expired_unchecked(_, _, _)
mdns_expired_unchecked(pv, list, records) ==
    IF list = {} THEN pv
    ELSE LET r == CHOOSE e \in list : TRUE IN
         mdns_expired_unchecked(pv \ {r[1]}, list \ {r}, records)

RECURSIVE mdns_expired(_, _, _)
mdns_expired(pv, list, records) ==
    IF list = {} THEN pv
    ELSE LET r == CHOOSE e \in list : TRUE IN
         mdns_expired(IF ~has_node(records, r[1]) THEN pv \ {r[1]} ELSE pv,
                      list \ {r}, records)

(***************************************************************************)
(* send and broadcast: both publish the encoded message on the topic.      *)
(***************************************************************************)
send_direct(pub, peer, message) == Append(pub, [topic |-> peer, data |-> encode(message)])

send(pub, peer, message) == Append(pub, [topic |-> TopicBlocks, data |-> encode(message)])

broadcast(pub, message) == Append(pub, [topic |-> TopicBlocks, data |-> encode(message)])

(***************************************************************************)
(* Behaviour actions                                                       *)
(***************************************************************************)
Floodsub(kind, source, data) ==
    /\ ~panicked
    /\ Len(enqueued) < MaxEvents
    /\ LET r == inject_floodsub(events, kind, source, data) IN
       /\ events' = r.events
       /\ panicked' = r.panicked
       /\ enqueued' = enqueued \o r.pushed
    /\ last' = [NoLast EXCEPT !.op = "inject_floodsub", !.kind = kind,
                              !.peer = source, !.data = data]
    /\ UNCHANGED <<view, mdns, published, delivered, viaKad, viaMdns>>
    /\ UNCHANGED builderVars
    /\ UNCHANGED loopVars

InjectFloodsub ==
    \E kind \in {"Message", "Subscribed", "Unsubscribed"}, source \in Peers, data \in Payloads :
        Floodsub(kind, source, data)

InjectKademlia ==
    \E kind \in {"Discovered", "FindNodeResult"}, peer_id \in Peers :
        /\ ~panicked
        /\ view' = inject_kademlia(view, kind, peer_id)
        /\ viaKad' = IF kind = "Discovered" THEN viaKad \cup {peer_id} ELSE viaKad
        /\ last' = [NoLast EXCEPT !.op = "inject_kademlia", !.kind = kind, !.peer = peer_id]
        /\ UNCHANGED <<events, mdns, published, panicked, enqueued, delivered, viaMdns>>
        /\ UNCHANGED builderVars
        /\ UNCHANGED loopVars

MdnsDiscovered ==
    \E list \in (SUBSET (Peers \X Addrs)) \ {{}} :
        /\ ~panicked
        /\ mdns' = mdns \cup list
        /\ view' = mdns_discovered(view, list)
        /\ viaMdns' = viaMdns \cup PeersOf(list)
        /\ last' = [NoLast EXCEPT !.op = "inject_mdns", !.kind = "Discovered", !.list = list]
        /\ UNCHANGED <<events, published, panicked, enqueued, delivered, viaKad>>
        /\ UNCHANGED builderVars
        /\ UNCHANGED loopVars

MdnsExpired ==
    \E list \in (SUBSET mdns) \ {{}} :
        /\ ~panicked
        /\ mdns' = mdns \ list
        /\ view' = mdns_expired(view, list, mdns')
        /\ viaMdns' = viaMdns \cup PeersOf(list)
        /\ last' = [NoLast EXCEPT !.op = "inject_mdns", !.kind = "Expired", !.list = list]
        /\ UNCHANGED <<events, published, panicked, enqueued, delivered, viaKad>>
        /\ UNCHANGED builderVars
        /\ UNCHANGED loopVars

Poll ==
    /\ ~panicked
    /\ LET r == poll(events) IN
       /\ events' = r.events
       /\ delivered' = IF r.result = "Ready" THEN Append(delivered, r.event) ELSE delivered
       /\ last' = [NoLast EXCEPT !.op = "poll", !.result = r.result, !.event = r.event]
    /\ UNCHANGED <<view, mdns, published, panicked, enqueued, viaKad, viaMdns>>
    /\ UNCHANGED builderVars
    /\ UNCHANGED loopVars

Send ==
    \E peer \in Peers, message \in Msgs :
        /\ ~panicked
        /\ Len(published) < MaxPublished
        /\ published' = send(published, peer, message)
        /\ last' = [NoLast EXCEPT !.op = "send", !.peer = peer, !.data = encode(message)]
        /\ UNCHANGED <<events, view, mdns, panicked, enqueued, delivered, viaKad, viaMdns>>
        /\ UNCHANGED builderVars
        /\ UNCHANGED loopVars

Broadcast ==
    \E message \in Msgs :
        /\ ~panicked
        /\ Len(published) < MaxPublished
        /\ published' = broadcast(published, message)
        /\ last' = [NoLast EXCEPT !.op = "broadcast", !.data = encode(message)]
        /\ UNCHANGED <<events, view, mdns, panicked, enqueued, delivered, viaKad, viaMdns>>
        /\ UNCHANGED builderVars
        /\ UNCHANGED loopVars

NextQueue == InjectFloodsub \/ Poll

NextView == InjectKademlia \/ MdnsDiscovered \/ MdnsExpired \/ Send \/ Broadcast

(***************************************************************************)
(* All the operations of the behaviour together, while the messages        *)
(* received, the mDNS records, the peers named and the publications stay   *)
(* within MaxNetSize.                                                      *)
(***************************************************************************)
NetSize ==
    Len(enqueued) + Cardinality(mdns) + Cardinality(viaKad) + Cardinality(viaMdns)
        + Len(published)

NetSmall == NetSize <= MaxNetSize

NextNet ==
    \/ (InjectFloodsub /\ NetSmall')
    \/ (InjectKademlia /\ NetSmall')
    \/ (MdnsDiscovered /\ NetSmall')
    \/ (MdnsExpired /\ NetSmall')
    \/ (Poll /\ NetSmall')
    \/ (Send /\ NetSmall')
    \/ (Broadcast /\ NetSmall')

(***************************************************************************)
(* The event loop of start_network_best_depth_sync: the closure given to   *)
(* poll_fn.  A scheduling step drains the timer (first loop), then the     *)
(* swarm (second loop), then returns NotReady.  The state before the first *)
(* step is the one the bootstrap leaves: listen_on has succeeded and its   *)
(* address has been printed.                                               *)
(***************************************************************************)
InitLoop ==
    /\ pc = "suspended"
    /\ ticks = 0
    /\ tickCalls = 0
    /\ stepTicks = 0
    /\ timerDrained = FALSE
    /\ active = 0
    /\ listening = FALSE
    /\ hasListener = FALSE
    /\ announced = 1

\* What interval.poll() returns: an error, the end of the stream, one
\* elapsed period, or NotReady when no period has elapsed.
interval_poll(pending, outcome) ==
    IF outcome = "err" THEN "Err"
    ELSE IF outcome = "closed" THEN "None"
    ELSE IF pending > 0 THEN "Some"
    ELSE "NotReady"

\* The executor polls the task: the closure starts at its first loop.
Wake ==
    /\ ~panicked
    /\ pc = "suspended"
    /\ pc' = "timer"
    /\ stepTicks' = 0
    /\ timerDrained' = FALSE
    /\ UNCHANGED <<ticks, tickCalls, active, listening, hasListener, announced>>
    /\ UNCHANGED netVars
    /\ UNCHANGED builderVars

\* A timer period elapses.
TimerElapse ==
    /\ ~panicked
    /\ ticks + tickCalls < MaxTicks
    /\ ticks' = ticks + 1
    /\ UNCHANGED <<pc, tickCalls, stepTicks, timerDrained, active, listening, hasListener,
                   announced>>
    /\ UNCHANGED netVars
    /\ UNCHANGED builderVars

\* The swarm gets a listener address.
ListenerUp ==
    /\ ~panicked
    /\ ~hasListener
    /\ hasListener' = TRUE
    /\ UNCHANGED <<pc, ticks, tickCalls, stepTicks, timerDrained, active, listening, announced>>
    /\ UNCHANGED netVars
    /\ UNCHANGED builderVars

\* First loop: match interval.poll().expect(..).
TimerPoll ==
    \E outcome \in {"ok", "err", "closed"} :
        /\ ~panicked
        /\ pc = "timer"
        /\ LET r == interval_poll(ticks, outcome) IN
           /\ panicked' = (r \in {"Err", "None"})
           /\ pc' = IF r = "Some" THEN "on_tick" ELSE IF r = "NotReady" THEN "swarm" ELSE pc
           /\ ticks' = IF r = "Some" THEN ticks - 1 ELSE ticks
           /\ tickCalls' = IF r = "Some" THEN tickCalls + 1 ELSE tickCalls
           /\ stepTicks' = IF r = "Some" THEN stepTicks + 1 ELSE stepTicks
           /\ active' = IF r = "Some" THEN active + 1 ELSE active
           /\ timerDrained' = IF r = "NotReady" THEN TRUE ELSE timerDrained
        /\ UNCHANGED <<listening, hasListener, announced>>
        /\ UNCHANGED <<events, view, mdns, published, enqueued, delivered, viaKad, viaMdns, last>>
        /\ UNCHANGED builderVars

\* on_tick may announce the best depth.
TickBroadcast ==
    \E message \in Msgs :
        /\ ~panicked
        /\ pc = "on_tick"
        /\ Len(published) < MaxPublished
        /\ published' = broadcast(published, message)
        /\ UNCHANGED <<events, view, mdns, panicked, enqueued, delivered, viaKad, viaMdns, last>>
        /\ UNCHANGED loopVars
        /\ UNCHANGED builderVars

\* on_tick returns: the first loop goes round.
TickReturnBreak ==
    /\ ~panicked
    /\ pc = "on_tick"
    /\ pc' = "swarm"
    /\ active' = active - 1
    /\ UNCHANGED <<ticks, tickCalls, stepTicks, timerDrained, listening, hasListener, announced>>
    /\ UNCHANGED netVars
    /\ UNCHANGED builderVars

TickReturn ==
    /\ ~panicked
    /\ pc = "on_tick"
    /\ pc' = "timer"
    /\ active' = active - 1
    /\ UNCHANGED <<ticks, tickCalls, stepTicks, timerDrained, listening, hasListener, announced>>
    /\ UNCHANGED netVars
    /\ UNCHANGED builderVars

\* Inside swarm.poll() the behaviour is handed the floodsub events.
LoopPayloads == {<<>>, <<0, 0>>, <<1, 1>>}

LoopInject ==
    \E source \in Peers, data \in LoopPayloads :
        /\ pc = "swarm"
        /\ Floodsub("Message", source, data)

\* Second loop: match swarm.poll().expect(..).  The swarm returns an
\* error, or what Behaviour::poll returns; Ready(None) and NotReady take
\* the same arm.
SwarmPollSpawn ==
    \E outcome \in {"ok", "err"} :
        /\ ~panicked
        /\ pc = "swarm"
        /\ LET r == poll(events) IN
           /\ panicked' = (outcome = "err")
           /\ events' = IF outcome = "ok" THEN r.events ELSE events
           /\ delivered' = IF outcome = "ok" /\ r.result = "Ready"
                           THEN Append(delivered, r.event) ELSE delivered
           /\ last' = IF outcome = "ok"
                      THEN [NoLast EXCEPT !.op = "poll", !.result = r.result, !.event = r.event]
                      ELSE last
           /\ active' = IF outcome = "ok" /\ r.result = "Ready" THEN active + 1 ELSE active
           /\ pc' = IF outcome = "err" THEN pc
                    ELSE IF r.result = "Ready" THEN "swarm" ELSE "suspended"
           /\ listening' = IF outcome = "ok" /\ r.result = "NotReady" /\ ~listening /\ hasListener
                           THEN TRUE ELSE listening
           /\ announced' = IF outcome = "ok" /\ r.result = "NotReady" /\ ~listening /\ hasListener
                           THEN announced + 1 ELSE announced
        /\ UNCHANGED <<ticks, tickCalls, stepTicks, timerDrained, hasListener>>
        /\ UNCHANGED <<view, mdns, published, enqueued, viaKad, viaMdns>>
        /\ UNCHANGED builderVars

SwarmPoll ==
    \E outcome \in {"ok", "err"} :
        /\ ~panicked
        /\ pc = "swarm"
        /\ LET r == poll(events) IN
           /\ panicked' = (outcome = "err")
           /\ events' = IF outcome = "ok" THEN r.events ELSE events
           /\ delivered' = IF outcome = "ok" /\ r.result = "Ready"
                           THEN Append(delivered, r.event) ELSE delivered
           /\ last' = IF outcome = "ok"
                      THEN [NoLast EXCEPT !.op = "poll", !.result = r.result, !.event = r.event]
                      ELSE last
           /\ active' = IF outcome = "ok" /\ r.result = "Ready" THEN active + 1 ELSE active
           /\ pc' = IF outcome = "err" THEN pc
                    ELSE IF r.result = "Ready" THEN "on_message" ELSE "suspended"
           /\ listening' = IF outcome = "ok" /\ r.result = "NotReady" /\ ~listening /\ hasListener
                           THEN TRUE ELSE listening
           /\ announced' = IF outcome = "ok" /\ r.result = "NotReady" /\ ~listening /\ hasListener
                           THEN announced + 1 ELSE announced
        /\ UNCHANGED <<ticks, tickCalls, stepTicks, timerDrained, hasListener>>
        /\ UNCHANGED <<view, mdns, published, enqueued, viaKad, viaMdns>>
        /\ UNCHANGED builderVars

\* on_message returns: the second loop goes round.
MessageReturn ==
    /\ ~panicked
    /\ pc = "on_message"
    /\ pc' = "swarm"
    /\ active' = active - 1
    /\ UNCHANGED <<ticks, tickCalls, stepTicks, timerDrained, listening, hasListener, announced>>
    /\ UNCHANGED netVars
    /\ UNCHANGED builderVars

LoopSize == Len(enqueued) + ticks + tickCalls + Len(published)

LoopSmall == LoopSize <= MaxLoopSize

NextLoop ==
    \/ (Wake /\ LoopSmall')
    \/ (TimerElapse /\ LoopSmall')
    \/ (ListenerUp /\ LoopSmall')
    \/ (TimerPoll /\ LoopSmall')
    \/ (TickBroadcast /\ LoopSmall')
    \/ (TickReturn /\ LoopSmall')
    \/ (LoopInject /\ LoopSmall')
    \/ (SwarmPoll /\ LoopSmall')
    \/ (MessageReturn /\ LoopSmall')

(***************************************************************************)
(* Specifications: Spec follows a block builder, QueueSpec the event queue *)
(* of the behaviour (gossip messages in, poll out), ViewSpec the partial   *)
(* view and the publications (discovery, expiry, send, broadcast).         *)
(***************************************************************************)
Init == InitBuilder /\ InitNet /\ InitLoop

Next == NextBuilder

Spec == Init /\ [][Next]_vars

NetInit ==
    /\ blocks = {}
    /\ states = {}
    /\ builder = NoBuilder
    /\ log = <<>>
    /\ ops = <<>>
    /\ newResult = NoNew
    /\ imported = <<>>
    /\ InitNet
    /\ InitLoop

QueueSpec == NetInit /\ [][NextQueue]_vars

ViewSpec == NetInit /\ [][NextView]_vars

NetSpec == NetInit /\ [][NextNet]_vars

LoopSpec == NetInit /\ [][NextLoop]_vars

(***************************************************************************)
(* Properties of the block builder (checked under Spec)                    *)
(***************************************************************************)

\* The step is an apply_extrinsic call that returned an error.
ApplyFailedStep ==
    /\ Len(log') = Len(log) + 1
    /\ log'[Len(log')].result # "Ok"

\* The extrinsics of the calls that returned Ok, in call order.
RECURSIVE Succeeded(_)
Succeeded(l) ==
    IF l = <<>> THEN <<>>
    ELSE IF Head(l).result = "Ok" THEN <<Head(l).x>> \o Succeeded(Tail(l))
    ELSE Succeeded(Tail(l))

SomeCallFailed == \E k \in 1..Len(log) : log[k].result # "Ok"

C2_BlockHoldsSucceededInOrder ==
    \A k \in 1..Len(ops) : ops[k].block.body = Succeeded(log)

\* C2 witness: T1 succeeded, T2 failed, finalize returned a block holding T1 alone.
C2_Witness ==
    /\ Len(ops) = 1
    /\ Len(log) = 2
    /\ log[1].result = "Ok"
    /\ log[2].result = "Executor"
    /\ ops[1].block.body = <<log[1].x>>

\* C3: once finalize has been called the builder is never used again (no
\* call changes it, its call log or its output), and a builder yields at
\* most one ImportOperation.
C3_FinalizedIsTerminal ==
    /\ [](Len(ops) <= 1)
    /\ [][builder.phase = "finalized" =>
            (builder' = builder /\ log' = log /\ ops' = ops)]_vars

\* C3 witness: a finalized builder that produced its ImportOperation while
\* further apply_extrinsic calls were still within the bound.
C3_Witness ==
    /\ builder.phase = "finalized"
    /\ Len(ops) = 1
    /\ Len(log) < MaxCalls

\* C4 as stated: after an apply_extrinsic call has failed, the builder
\* never yields an ImportOperation.
C4_FailureAbortsBlock == SomeCallFailed => ops = <<>>

\* C4 as amended: a failed apply_extrinsic call aborts that extrinsic only;
\* the builder stays live after the failure, and an ImportOperation it
\* yields later holds as many extrinsics as calls succeeded.
C4_FailureAbortsOnlyExtrinsic ==
    /\ [][ApplyFailedStep => builder'.phase = "live"]_vars
    /\ [](\A k \in 1..Len(ops) :
            Len(ops[k].block.body) = Cardinality({j \in 1..Len(log) : log[j].result = "Ok"}))

\* C4 witness: an ImportOperation yielded by a builder on which a call had failed.
C4_Witness ==
    /\ SomeCallFailed
    /\ Len(ops) = 1

\* C5: new returns a Backend error exactly when the parent block or the
\* parent state is not located, an Executor error exactly when both are
\* located and initialize_block fails, and otherwise a builder whose
\* pending block and pending state are opened at the parent hash.
C5_NewErrorClasses ==
    newResult.result # "none" =>
        /\ newResult.result = "Backend" <=> (~newResult.blockFound \/ ~newResult.stateFound)
        /\ newResult.result = "Executor" <=>
               (newResult.blockFound /\ newResult.stateFound /\ ~newResult.initOk)
        /\ newResult.result = "Ok" <=>
               (newResult.blockFound /\ newResult.stateFound /\ newResult.initOk)
        /\ newResult.result = "Ok" =>
               /\ builder.phase # "none"
               /\ builder.block.at = newResult.parent
               /\ builder.state.root = newResult.parent
        /\ newResult.result # "Ok" => builder = NoBuilder

\* C5 witness: the parent block was located, the parent state was not.
C5_Witness ==
    /\ newResult.result = "Backend"
    /\ newResult.blockFound
    /\ ~newResult.stateFound

\* C20: new calls block_at, then state_at, then initialize_block, and
\* stops at the first failure: a failed block lookup is followed by no
\* other call, a failed state lookup by no executor call, and a failure
\* returns no builder.
C20_NewStopsAtFirstFailure ==
    newResult.result # "none" =>
        /\ ~newResult.blockFound => newResult.calls = <<"block_at">>
        /\ (newResult.blockFound /\ ~newResult.stateFound) =>
               newResult.calls = <<"block_at", "state_at">>
        /\ (newResult.blockFound /\ newResult.stateFound) =>
               newResult.calls = <<"block_at", "state_at", "initialize_block">>
        /\ newResult.result # "Ok" => builder = NoBuilder

\* C20 witness: the block lookup failed and the state, which the backend
\* could have located, was never looked up.
C20_Witness ==
    /\ newResult.result = "Backend"
    /\ ~newResult.blockFound
    /\ newResult.stateFound
    /\ newResult.calls = <<"block_at">>

\* C16: no step of a builder (new, apply_extrinsic, finalize, drop) changes
\* what the backend can locate; the backend changes only in a step that
\* commits an ImportOperation a finalize call returned.
C16_BuilderLeavesBackendAlone ==
    /\ [][(builder' # builder \/ log' # log \/ ops' # ops \/ newResult' # newResult) =>
            (blocks' = blocks /\ states' = states)]_vars
    /\ [][(blocks' # blocks \/ states' # states) =>
            /\ Len(imported') = Len(imported) + 1
            /\ \E k \in 1..Len(ops) : imported'[Len(imported')] = ops[k]]_vars

\* C16 witness: a builder with applied extrinsics was dropped and the
\* backend holds what it held before the builder was made.
C16_Witness ==
    /\ builder.phase = "dropped"
    /\ builder.block.body # <<>>
    /\ imported = <<>>
    /\ blocks \subseteq Hashes
    /\ states \subseteq Hashes

(***************************************************************************)
(* Properties of the event queue (checked under QueueSpec)                 *)
(***************************************************************************)

\* The step handled a floodsub Message whose payload does not decode.
MalformedStep ==
    /\ last'.op = "inject_floodsub"
    /\ last'.kind = "Message"
    /\ ~decode(last'.data).ok

\* C6 as stated: a payload that fails to decode is dropped, nothing is
\* enqueued and the process does not terminate.
C6_MalformedPayloadDropped ==
    [][MalformedStep => (events' = events /\ ~panicked')]_vars

\* C7: the events poll has handed out, followed by the events still
\* queued, are the events enqueued, in the order they were enqueued.
C7_QueueIsFifo == enqueued = delivered \o events

\* C7 witness: two different events delivered while a third is still queued.
C7_Witness ==
    /\ Len(delivered) = 2
    /\ delivered[1] # delivered[2]
    /\ Len(events) = 1

\* C8: poll returns Ready with the head of the queue and removes it when
\* the queue is not empty, and returns NotReady and leaves the queue as it
\* is when the queue is empty.
C8_PollReadyIffNonEmpty ==
    [][last'.op = "poll" =>
         IF events # <<>>
         THEN /\ last'.result = "Ready"
              /\ last'.event = Head(events)
              /\ events' = Tail(events)
         ELSE /\ last'.result = "NotReady"
              /\ events' = events]_vars

\* C8 witness: poll returned an event and left others queued.
C8_Witness ==
    /\ last.op = "poll"
    /\ last.result = "Ready"
    /\ events # <<>>

(***************************************************************************)
(* Properties of the partial view (checked under ViewSpec)                 *)
(***************************************************************************)

\* The step handled an mDNS Expired notice.
ExpiredStep ==
    /\ last'.op = "inject_mdns"
    /\ last'.kind = "Expired"

\* C9: an mDNS Expired notice that does not list a peer added by Kademlia
\* and never named by mDNS leaves that peer in the partial view.
C9_DhtOnlyPeerKept ==
    [][ExpiredStep =>
         \A p \in viaKad \ viaMdns :
             (p \notin PeersOf(last'.list) /\ p \in view) => p \in view']_vars

\* C9 witness: an Expired notice has removed a peer while a peer known
\* through Kademlia alone is in the partial view.
C9_Witness ==
    /\ last.op = "inject_mdns"
    /\ last.kind = "Expired"
    /\ \E q \in PeersOf(last.list) : q \notin view
    /\ \E p \in viaKad \ viaMdns : p \in view

\* C10: on an mDNS Expired notice a listed peer is in the partial view
\* afterwards exactly when it was there before and mDNS still holds a
\* record of it; whether Kademlia discovered the peer plays no part.
C10_ExpiredRemovesIffNoRecord ==
    [][ExpiredStep =>
         \A p \in PeersOf(last'.list) :
             p \in view' <=> (p \in view /\ has_node(mdns', p))]_vars

\* C10 witness: one Expired notice listed a peer mDNS still knows, which
\* stayed, and a peer mDNS no longer knows, which was removed although
\* Kademlia had discovered it.
C10_Witness ==
    /\ last.op = "inject_mdns"
    /\ last.kind = "Expired"
    /\ \E p \in PeersOf(last.list) : p \in view /\ has_node(mdns, p)
    /\ \E q \in PeersOf(last.list) : q \notin view /\ q \in viaKad

\* C11: a Kademlia Discovered notification puts the peer in the partial
\* view whatever the view and mDNS hold, no Kademlia notification takes a
\* peer out of it, and a peer leaves the partial view only in a step that
\* handles an mDNS Expired notice.
C11_KademliaOnlyAdds ==
    [][/\ last'.op = "inject_kademlia" =>
            /\ view \subseteq view'
            /\ last'.kind = "Discovered" => last'.peer \in view'
       /\ (view \ view' # {}) => ExpiredStep]_vars

\* C11 witness: Kademlia has put back a peer that mDNS had named and holds
\* no record of any more.
C11_Witness ==
    /\ last.op = "inject_kademlia"
    /\ last.kind = "Discovered"
    /\ last.peer \in view
    /\ last.peer \in viaMdns
    /\ ~has_node(mdns, last.peer)

\* C15: send and broadcast have the same effect for every peer and
\* message: each appends one publication of the encoded message on the
\* shared topic, and neither changes the partial view.
C15_SendIsBroadcast ==
    /\ [](\A peer \in Peers, m \in Msgs :
            /\ send(published, peer, m) = broadcast(published, m)
            /\ broadcast(published, m) =
                   Append(published, [topic |-> TopicBlocks, data |-> encode(m)]))
    /\ [][last'.op \in {"send", "broadcast"} =>
            /\ published' = Append(published, [topic |-> TopicBlocks, data |-> last'.data])
            /\ view' = view]_vars

\* C15 witness: a message was sent to a peer that is not in the partial
\* view, and is published on the shared topic.
C15_Witness ==
    /\ last.op = "send"
    /\ view # {}
    /\ last.peer \notin view
    /\ published # <<>>
    /\ published[Len(published)] = [topic |-> TopicBlocks, data |-> last.data]

(***************************************************************************)
(* Properties of the whole behaviour (checked under NetSpec)               *)
(***************************************************************************)

OnMessageCall == Len(delivered') = Len(delivered) + 1

\* The step invokes on_tick.
OnTickCall == tickCalls' # tickCalls

\* C12: in a scheduling step on_message is invoked only after the timer
\* has reported NotReady in that step; the timer reports NotReady only
\* when no elapsed period is left, and each on_tick invocation takes one
\* elapsed period, before the timer has reported NotReady.
C12_TicksDrainedFirst ==
    /\ [][OnMessageCall => timerDrained]_vars
    /\ [][(timerDrained' /\ ~timerDrained) => (ticks = 0 /\ ticks' = 0)]_vars
    /\ [][OnTickCall =>
            /\ tickCalls' = tickCalls + 1
            /\ ticks' = ticks - 1
            /\ ~timerDrained]_vars

\* C12 witness: on_message runs in a scheduling step that handled two
\* elapsed periods first.
C12_Witness ==
    /\ pc = "on_message"
    /\ stepTicks = 2
    /\ timerDrained

\* C13 as stated: no timer error, closed timer stream, swarm error or
\* decode error ends the event loop.
C13_LoopNeverEnds == ~panicked

\* C14: at most one handler invocation is in progress, a handler is
\* invoked only when none is in progress, and the loop is suspended only
\* when none is in progress.
C14_HandlersNeverOverlap ==
    /\ [](active <= 1)
    /\ [](pc = "suspended" => active = 0)
    /\ []((pc \in {"on_tick", "on_message"}) <=> active = 1)
    /\ [][(OnMessageCall \/ OnTickCall) => active = 0]_vars

\* C14 witness: on_message is in progress after an on_tick invocation of
\* the same scheduling step has returned.
C14_Witness ==
    /\ pc = "on_message"
    /\ active = 1
    /\ stepTicks >= 1

\* C17 as stated: the listening address is announced exactly once over
\* the whole run, when the loop first sees a listener.
C17_AnnouncedOnce ==
    /\ announced <= 1
    /\ listening => announced = 1

\* C18 as stated: whenever the loop has yielded or has ended, every event
\* that was put in the queue has been passed to on_message exactly once.
C18_NoEventLeftBehind ==
    (pc = "suspended" \/ panicked) => delivered = enqueued

====
